---- MODULE Spec2Model ----
(***************************************************************************)
(* Model of OrderBookDataCollector (main.py): the row buffer, the          *)
(* date-partitioned append-only files, the flush / rollover logic, the     *)
(* receive_data reconnect loop and the print_data reporting task.          *)
(*                                                                         *)
(* Time is kept as elapsed times: flush_elapsed is time.time() -           *)
(* self.last_flush (only ever compared with 60, so it saturates just above *)
(* the threshold) and sleep_left is what remains of a pending             *)
(* asyncio.sleep(5).  today is what get_current_date() returns.  Every     *)
(* handler reads the clock once.                                           *)
(*                                                                         *)
(* Optional values (dict.get results, None) are sequences of length 0/1.   *)
(***************************************************************************)
EXTENDS Integers, Sequences, FiniteSets

VARIABLES
    buffer,          \* self.buffer: sequence of row records
    current_date,    \* self.current_date: the held partition key
    flush_elapsed,   \* time.time() - self.last_flush, saturated
    order_book,      \* self.order_book: <<>> (None) or <<decoded data>>
    last_update,     \* self.last_update: <<>> (None) or <<receipt stamp>>
    files,           \* data/<SYMBOL>/<date>.csv.gz, per date
    dir_exists,      \* whether data/<SYMBOL>/ exists
    today,           \* the wall clock's UTC date
    recv_pc,         \* position of the receive_data task
    sleep_left,      \* remaining time of the pending asyncio.sleep(5)
    print_pc,        \* position of the print_data task
    cancel_requested,\* the tasks have been cancelled (shutdown of asyncio.run)
    n_recv,          \* number of messages delivered by the feed so far
    last,            \* last operation of the collector and the exception it handled
    produced,        \* history: every row buffer_snapshot has appended, in order
    write_failed,    \* history: some to_csv call has raised
    flushed          \* history: per date, the row counts of the completed writes to its file

vars == <<buffer, current_date, flush_elapsed, order_book, last_update, files,
          dir_exists, today, recv_pc, sleep_left, print_pc, cancel_requested,
          n_recv, last, produced, write_failed, flushed>>

----------------------------------------------------------------------------
(* Bounds of the model *)
MaxMsgs == 2       \* messages the feed delivers
MaxDate == 1       \* dates the clock runs through: 0..MaxDate
MaxLevels == 11    \* longest bid / ask array of the ingest inputs
MaxWide == 1       \* messages received in the ingest specification
MaxFairMsgs == 1   \* messages the feed delivers in the fair specification

(* Program constants *)
TOP_N == 10            \* bids[:10], asks[:10]
FLUSH_INTERVAL == 60   \* time.time() - self.last_flush > 60
BACKOFF == 5           \* asyncio.sleep(5)

Dates == 0..MaxDate
TickSteps == {30}
Min(a, b) == IF a < b THEN a ELSE b
Max(a, b) == IF a > b THEN a ELSE b
Range(s) == {s[i] : i \in 1..Len(s)}

COLUMNS == <<"timestamp", "price", "quantity", "side", "level", "update_id">>

----------------------------------------------------------------------------
(* Decoded data.  kind "object" is a JSON object with optional keys E, u,  *)
(* b, a; kind "other" is any other JSON value (list, number, string).      *)
(* A level entry is a tuple; a well-formed one has length 2.               *)
Obj(E, u, b, a) == [kind |-> "object", truthy |-> (E # <<>> \/ u # <<>> \/ b # <<>> \/ a # <<>>),
                    E |-> E, u |-> u, b |-> b, a |-> a]
Other(truthy) == [kind |-> "other", truthy |-> truthy,
                  E |-> <<>>, u |-> <<>>, b |-> <<>>, a |-> <<>>]

(* dict.get(key, default) *)
Get(opt, default) == IF opt = <<>> THEN default ELSE opt[1]

Bid(i) == <<100 - i, i>>
Ask(i) == <<100 + i, i>>
BadEntry == <<0, 0, 0>>

----------------------------------------------------------------------------
(* buffer_snapshot *)

Row(ts, entry, side, i, uid) ==
    [timestamp |-> ts, price |-> entry[1], quantity |-> entry[2],
     side |-> side, level |-> i, update_id |-> uid]

(* Mutant: the slice is left out, every level is taken. *)
Top_All(levels) == levels

(* levels[:10] *)
Top(levels) == SubSeq(levels, 1, Min(Len(levels), TOP_N))

(* enumerate(..., 1): the level of the entry at position i *)
LevelOf(i) == i

(* "for i, (price, qty) in ...": the unpacking raises ValueError at the     *)
(* first entry that is not a pair; Unpacked is the number of entries the   *)
(* loop gets through.                                                      *)
Unpacked(s) ==
    LET bad == {i \in 1..Len(s) : Len(s[i]) # 2}
    IN  IF bad = {} THEN Len(s)
        ELSE (CHOOSE i \in bad : \A j \in bad : i <= j) - 1

(* Mutant: the entries of a side are taken from the last to the first. *)
SideRows_Reversed(data, levels, side) ==
    [i \in 1..Unpacked(Top(levels)) |->
        Row(data.E, Top(levels)[Unpacked(Top(levels)) + 1 - i], side, LevelOf(i), data.u)]

SideRows(data, levels, side) ==
    [i \in 1..Unpacked(Top(levels)) |->
        Row(data.E, Top(levels)[i], side, LevelOf(i), data.u)]

(* The buffer after buffer_snapshot(data) and the exception it raised.     *)
buffer_snapshot(buf, data) ==
    IF data.kind # "object"
    THEN [buffer |-> buf, exc |-> "AttributeError"]
    ELSE LET bids == Get(data.b, <<>>)
             asks == Get(data.a, <<>>)
             withBids == buf \o SideRows(data, bids, "bid")
         IN  IF Unpacked(Top(bids)) # Len(Top(bids))
             THEN [buffer |-> withBids, exc |-> "ValueError"]
             ELSE [buffer |-> withBids \o SideRows(data, asks, "ask"),
                   exc |-> IF Unpacked(Top(asks)) # Len(Top(asks))
                           THEN "ValueError" ELSE "none"]

----------------------------------------------------------------------------
(* Files.  A file is [exists, lines]; a line is <<"header", COLUMNS>> or   *)
(* <<"data", cells>>, the cells in column order (None is the empty cell).  *)

NoFile == [exists |-> FALSE, lines |-> <<>>]
HeaderLine == <<"header", COLUMNS>>
DataLine(r) == <<"data", <<r.timestamp, r.price, r.quantity, r.side, r.level, r.update_id>>>>
DataLines(f) == SelectSeq(f.lines, LAMBDA l : l[1] = "data")
HeaderCount(f) == Len(SelectSeq(f.lines, LAMBDA l : l[1] = "header"))

(* Mutant: the path is computed from the held partition key. *)
get_filepath_Held(clock, held) == held

(* get_filepath: the partition the path names.  It is computed from the    *)
(* clock (get_current_date()), not from self.current_date.                 *)
get_filepath(clock, held) == clock

(* The outcomes of makedirs + to_csv(mode='a', header=..., gzip) on rows:  *)
(* success, or an OSError raised when the file is opened or after          *)
(* n < Len(rows) rows have been written.                                   *)
OkOutcome(rows) == [stage |-> "ok", n |-> Len(rows)]
WriteOutcomes(rows) ==
    {OkOutcome(rows), [stage |-> "open", n |-> 0]}
    \cup {[stage |-> "write", n |-> k] : k \in 0..(Len(rows) - 1)}

(* Mutant: the header is written by every flush. *)
WriteHeader_Always(f) == TRUE

(* write_header = not os.path.exists(filepath) *)
WriteHeader(f) == ~f.exists

(* Mutant: the file is opened with mode='w' and loses its old content. *)
to_csv_Truncates(f, rows, w) ==
    IF w.stage = "open" THEN f
    ELSE [exists |-> TRUE,
          lines |-> (IF WriteHeader(f) THEN <<HeaderLine>> ELSE <<>>)
                    \o [i \in 1..w.n |-> DataLine(rows[i])]]

(* df.to_csv(filepath, mode='a', header=write_header, ...) *)
to_csv(f, rows, w) ==
    IF w.stage = "open" THEN f
    ELSE [exists |-> TRUE,
          lines |-> f.lines \o (IF WriteHeader(f) THEN <<HeaderLine>> ELSE <<>>)
                            \o [i \in 1..w.n |-> DataLine(rows[i])]]

(* Mutant: the buffer is not cleared after the write. *)
flush_buffer_KeepsBuffer(c, clock, w) ==
    IF c.buffer = <<>> THEN c
    ELSE LET d == get_filepath(clock, c.current_date)
             written == [c EXCEPT !.dir_exists = TRUE,
                                  !.files[d] = to_csv(c.files[d], c.buffer, w)]
         IN  IF w.stage # "ok"
             THEN [written EXCEPT !.at = "flush_buffer", !.exc = "OSError", !.failed = TRUE]
             ELSE [written EXCEPT !.flush_elapsed = 0,
                                  !.flushed[d] = Append(@, Len(c.buffer))]

(* Mutant: neither the buffer nor last_flush is reset after the write. *)
flush_buffer_NoReset(c, clock, w) ==
    IF c.buffer = <<>> THEN c
    ELSE LET d == get_filepath(clock, c.current_date)
             written == [c EXCEPT !.dir_exists = TRUE,
                                  !.files[d] = to_csv(c.files[d], c.buffer, w)]
         IN  IF w.stage # "ok"
             THEN [written EXCEPT !.at = "flush_buffer", !.exc = "OSError", !.failed = TRUE]
             ELSE [written EXCEPT !.flushed[d] = Append(@, Len(c.buffer))]

(* Mutant: last_flush is not reset after the write. *)
flush_buffer_NoTimeReset(c, clock, w) ==
    IF c.buffer = <<>> THEN c
    ELSE LET d == get_filepath(clock, c.current_date)
             written == [c EXCEPT !.dir_exists = TRUE,
                                  !.files[d] = to_csv(c.files[d], c.buffer, w)]
         IN  IF w.stage # "ok"
             THEN [written EXCEPT !.at = "flush_buffer", !.exc = "OSError", !.failed = TRUE]
             ELSE [written EXCEPT !.buffer = <<>>,
                                  !.flushed[d] = Append(@, Len(c.buffer))]

(* Mutant: the buffer is cleared before the write is attempted. *)
flush_buffer_ClearsFirst(c, clock, w) ==
    IF c.buffer = <<>> THEN c
    ELSE LET d == get_filepath(clock, c.current_date)
             written == [c EXCEPT !.dir_exists = TRUE, !.buffer = <<>>,
                                  !.files[d] = to_csv(c.files[d], c.buffer, w)]
         IN  IF w.stage # "ok"
             THEN [written EXCEPT !.at = "flush_buffer", !.exc = "OSError", !.failed = TRUE]
             ELSE [written EXCEPT !.flush_elapsed = 0,
                                  !.flushed[d] = Append(@, Len(c.buffer))]

(* Mutant: no early return on an empty buffer. *)
flush_buffer_NoEmptyCheck(c, clock, w) ==
    LET d == get_filepath(clock, c.current_date)
        written == [c EXCEPT !.dir_exists = TRUE,
                             !.files[d] = to_csv(c.files[d], c.buffer, w)]
    IN  IF w.stage # "ok"
        THEN [written EXCEPT !.at = "flush_buffer", !.exc = "OSError", !.failed = TRUE]
        ELSE [written EXCEPT !.buffer = <<>>, !.flush_elapsed = 0,
                             !.flushed[d] = Append(@, Len(c.buffer))]

(* flush_buffer on the collector state c = [buffer, current_date,          *)
(* flush_elapsed, files, dir_exists, order_book, last_update, at, exc,      *)
(* failed, flushed] with the clock's date and the outcome w of the write.  *)
flush_buffer(c, clock, w) ==
    IF c.buffer = <<>> THEN c
    ELSE LET d == get_filepath(clock, c.current_date)
             written == [c EXCEPT !.dir_exists = TRUE,
                                  !.files[d] = to_csv(c.files[d], c.buffer, w)]
         IN  IF w.stage # "ok"
             THEN [written EXCEPT !.at = "flush_buffer", !.exc = "OSError", !.failed = TRUE]
             ELSE [written EXCEPT !.buffer = <<>>, !.flush_elapsed = 0,
                                  !.flushed[d] = Append(@, Len(c.buffer))]

(* rollover_file: flush, then adopt the clock's date *)
rollover_file(c, clock, w) ==
    LET f == flush_buffer(c, clock, w)
    IN  IF f.exc # "none" THEN f
        ELSE [f EXCEPT !.current_date = clock]

----------------------------------------------------------------------------
(* The collector's fields as one record, and back. *)
Collector ==
    [buffer |-> buffer, current_date |-> current_date, flush_elapsed |-> flush_elapsed,
     files |-> files, dir_exists |-> dir_exists, order_book |-> order_book,
     last_update |-> last_update, at |-> "recv", exc |-> "none", failed |-> write_failed,
     flushed |-> flushed]

Store(c) ==
    /\ buffer' = c.buffer
    /\ current_date' = c.current_date
    /\ flush_elapsed' = c.flush_elapsed
    /\ files' = c.files
    /\ dir_exists' = c.dir_exists
    /\ order_book' = c.order_book
    /\ last_update' = c.last_update
    /\ write_failed' = c.failed
    /\ flushed' = c.flushed
    /\ last' = [at |-> c.at, exc |-> c.exc]

(* What buffer_snapshot appended: the part of r after the first n rows. *)
Added(buf, r) == SubSeq(r, Len(buf) + 1, Len(r))

(* Mutant: the 60 s check is missing. *)
OnMessage_NoTimeCheck(c, msg, stamp, clock, w) ==
    IF ~msg.json_ok
    THEN [c EXCEPT !.at = "json.loads", !.exc = "JSONDecodeError"]
    ELSE LET s == buffer_snapshot(c.buffer, msg.data)
             c1 == [c EXCEPT !.order_book = <<msg.data>>, !.last_update = <<stamp>>,
                             !.buffer = s.buffer]
         IN  IF s.exc # "none"
             THEN [c1 EXCEPT !.at = "buffer_snapshot", !.exc = s.exc]
             ELSE IF clock # c1.current_date
                  THEN rollover_file(c1, clock, w) ELSE c1

(* Mutant: last_update is assigned after buffer_snapshot has returned. *)
OnMessage_StampAfterIngest(c, msg, stamp, clock, w) ==
    IF ~msg.json_ok
    THEN [c EXCEPT !.at = "json.loads", !.exc = "JSONDecodeError"]
    ELSE LET s == buffer_snapshot(c.buffer, msg.data)
             c0 == [c EXCEPT !.order_book = <<msg.data>>, !.buffer = s.buffer]
             c1 == [c0 EXCEPT !.last_update = <<stamp>>]
         IN  IF s.exc # "none"
             THEN [c0 EXCEPT !.at = "buffer_snapshot", !.exc = s.exc]
             ELSE LET c2 == IF clock # c1.current_date
                            THEN rollover_file(c1, clock, w) ELSE c1
                  IN  IF c2.exc # "none" THEN c2
                      ELSE IF c2.flush_elapsed > FLUSH_INTERVAL
                           THEN flush_buffer(c2, clock, w) ELSE c2

(* The body of the inner try of receive_data for one received message:     *)
(* json.loads, publish order_book / last_update, buffer_snapshot, the      *)
(* rollover check and the 60 s check.  The first exception ends it.        *)
OnMessage(c, msg, stamp, clock, w) ==
    IF ~msg.json_ok
    THEN [c EXCEPT !.at = "json.loads", !.exc = "JSONDecodeError"]
    ELSE LET s == buffer_snapshot(c.buffer, msg.data)
             c1 == [c EXCEPT !.order_book = <<msg.data>>, !.last_update = <<stamp>>,
                             !.buffer = s.buffer]
         IN  IF s.exc # "none"
             THEN [c1 EXCEPT !.at = "buffer_snapshot", !.exc = s.exc]
             ELSE LET c2 == IF clock # c1.current_date
                            THEN rollover_file(c1, clock, w) ELSE c1
                  IN  IF c2.exc # "none" THEN c2
                      ELSE IF c2.flush_elapsed > FLUSH_INTERVAL
                           THEN flush_buffer(c2, clock, w) ELSE c2

(* Mutant: the inner try has no catch-all clause. *)
InnerHandler_NoCatchAll(exc) ==
    IF exc = "none" THEN "continue" ELSE "raise"

(* Mutant: the catch-all clause comes first and takes CancelledError too. *)
InnerHandler_CatchesCancel(exc) ==
    IF exc = "none" THEN "continue" ELSE "break"

(* The except clauses of the inner try (lines 129-134). *)
InnerHandler(exc) ==
    IF exc = "none" THEN "continue"
    ELSE IF exc = "CancelledError" THEN "raise"
    ELSE "break"

(* Mutant: the outer try has only the connection-error clause. *)
OuterHandler_NoCatchAll(exc) ==
    IF exc \in {"ConnectionClosed", "InvalidStatusCode", "OSError"} THEN "sleep" ELSE "raise"

(* The except clauses of the outer try (lines 135-143): both the           *)
(* connection-error clause and the catch-all sleep 5 s.                    *)
OuterHandler(exc) ==
    IF exc = "CancelledError" THEN "raise" ELSE "sleep"

Terminated(exc) == IF exc = "CancelledError" THEN "cancelled" ELSE "failed"

(* Where receive_data goes after an exception (or none) inside the inner   *)
(* try, and after one raised by websockets.connect.                        *)
AfterRecv(exc) ==
    CASE InnerHandler(exc) = "continue" -> "receiving"
      [] InnerHandler(exc) = "break" -> "connecting"
      [] OTHER -> IF OuterHandler(exc) = "raise" THEN Terminated(exc) ELSE "backoff"

AfterConnect(exc) ==
    IF exc = "none" THEN "receiving"
    ELSE IF OuterHandler(exc) = "raise" THEN Terminated(exc) ELSE "backoff"

(* An exception raised inside an except clause (the sleep) leaves the try. *)
AfterSleep(exc) == IF exc = "none" THEN "connecting" ELSE Terminated(exc)

(* asyncio.sleep(5) *)
SleepTime == BACKOFF

(* The exception print_data's body raises on order_book: AttributeError    *)
(* when it is truthy and not a dict (.get), ValueError when b and a are    *)
(* both present and DataFrame(..., columns of 2) gets an entry with more   *)
(* than two cells.                                                         *)
PrintExc(ob) ==
    IF ob = <<>> \/ ~ob[1].truthy THEN "none"
    ELSE IF ob[1].kind # "object" THEN "AttributeError"
    ELSE IF /\ ob[1].b # <<>>
            /\ ob[1].a # <<>>
            /\ \E l \in Range(ob[1].b[1]) \cup Range(ob[1].a[1]) : Len(l) > 2
         THEN "ValueError"
    ELSE "none"

PrintRaises(ob) == PrintExc(ob) # "none"

----------------------------------------------------------------------------
(* The feed's messages: n is the number of the message, used as its event  *)
(* time E and final update id u.                                           *)
Msg(ok, data) == [json_ok |-> ok, data |-> data]

Messages(n) ==
    { Msg(FALSE, Other(FALSE)),
      Msg(TRUE, Other(TRUE)),
      Msg(TRUE, Obj(<<n>>, <<n>>, << <<Bid(1), Bid(2)>> >>, << <<Ask(1)>> >>)),
      Msg(TRUE, Obj(<<n>>, <<n>>, <<>>, <<>>)),
      Msg(TRUE, Obj(<<n>>, <<n>>, << <<Bid(1), BadEntry>> >>, << <<Ask(1)>> >>)) }

Levels(k, side) == [i \in 1..k |-> IF side = "bid" THEN Bid(i) ELSE Ask(i)]
OptLevels(side) == {<<>>} \cup {<<Levels(k, side)>> : k \in 0..MaxLevels}

WideMessages(n) ==
    { Msg(TRUE, Obj(e, e, b, a)) :
        e \in {<<>>, <<n>>}, b \in OptLevels("bid"), a \in OptLevels("ask") }

----------------------------------------------------------------------------
Init ==
    /\ buffer = <<>>
    /\ today = 0
    /\ current_date = 0
    /\ flush_elapsed = 0
    /\ order_book = <<>>
    /\ last_update = <<>>
    /\ files = [d \in Dates |-> NoFile]
    /\ dir_exists = FALSE
    /\ recv_pc = "connecting"
    /\ sleep_left = 0
    /\ print_pc = "sleeping"
    /\ cancel_requested = FALSE
    /\ n_recv = 0
    /\ last = [at |-> "init", exc |-> "none"]
    /\ produced = <<>>
    /\ write_failed = FALSE
    /\ flushed = [d \in Dates |-> <<>>]

(* receive_data: async with websockets.connect(self.url) succeeds *)
Connect ==
    /\ recv_pc = "connecting"
    /\ ~cancel_requested
    /\ recv_pc' = AfterConnect("none")
    /\ last' = [at |-> "connect", exc |-> "none"]
    /\ UNCHANGED <<buffer, current_date, flush_elapsed, order_book, last_update, files,
                   dir_exists, today, sleep_left, print_pc, cancel_requested, n_recv,
                   produced, write_failed, flushed>>

(* websockets.connect raises: the outer handlers start asyncio.sleep(5) *)
ConnectFail ==
    \E e \in {"InvalidStatusCode", "OSError", "Exception"} :
        /\ recv_pc = "connecting"
        /\ ~cancel_requested
        /\ recv_pc' = AfterConnect(e)
        /\ sleep_left' = IF AfterConnect(e) = "backoff" THEN SleepTime ELSE sleep_left
        /\ last' = [at |-> "connect", exc |-> e]
        /\ UNCHANGED <<buffer, current_date, flush_elapsed, order_book, last_update, files,
                       dir_exists, today, print_pc, cancel_requested, n_recv,
                       produced, write_failed, flushed>>

(* asyncio.sleep(5) returns; while self.running: connect again *)
BackoffDone ==
    /\ recv_pc = "backoff"
    /\ sleep_left = 0
    /\ ~cancel_requested
    /\ recv_pc' = AfterSleep("none")
    /\ last' = [at |-> "sleep", exc |-> "none"]
    /\ UNCHANGED <<buffer, current_date, flush_elapsed, order_book, last_update, files,
                   dir_exists, today, sleep_left, print_pc, cancel_requested, n_recv,
                   produced, write_failed, flushed>>

(* websocket.recv() returns msg; the rest of the inner try runs on it *)
RecvMessage(msg) ==
    /\ recv_pc = "receiving"
    /\ ~cancel_requested
    /\ LET ingested == buffer_snapshot(buffer, msg.data).buffer
           \* the outcome of the write matters only when the handler gets to write
           writes == /\ ingested # <<>>
                     /\ today # current_date \/ flush_elapsed > FLUSH_INTERVAL
       IN  \E w \in (IF writes THEN WriteOutcomes(ingested) ELSE {OkOutcome(ingested)}) :
             LET c == OnMessage(Collector, msg, n_recv + 1, today, w)
             IN  /\ Store(c)
                 /\ recv_pc' = AfterRecv(c.exc)
                 /\ produced' = produced \o Added(buffer, IF msg.json_ok THEN ingested ELSE buffer)
    /\ n_recv' = n_recv + 1
    /\ UNCHANGED <<today, sleep_left, print_pc, cancel_requested>>

Recv ==
    /\ n_recv < MaxMsgs
    /\ \E msg \in Messages(n_recv + 1) : RecvMessage(msg)

(* websocket.recv() raises: the connection was closed, or a socket fault *)
RecvConnLost ==
    \E e \in {"ConnectionClosed", "OSError"} :
        /\ recv_pc = "receiving"
        /\ ~cancel_requested
        /\ recv_pc' = AfterRecv(e)
        /\ sleep_left' = IF AfterRecv(e) = "backoff" THEN SleepTime ELSE sleep_left
        /\ last' = [at |-> "recv", exc |-> e]
        /\ UNCHANGED <<buffer, current_date, flush_elapsed, order_book, last_update, files,
                       dir_exists, today, print_pc, cancel_requested, n_recv,
                       produced, write_failed, flushed>>

(* Mutant: print_data consumes the snapshot it has printed. *)
PrintStep_ClearsSnapshot ==
    /\ print_pc = "sleeping"
    /\ ~cancel_requested
    /\ print_pc' = IF PrintRaises(order_book) THEN "failed" ELSE "sleeping"
    /\ cancel_requested' = PrintRaises(order_book)
    /\ last' = [at |-> "print_data", exc |-> PrintExc(order_book)]
    /\ order_book' = <<>>
    /\ UNCHANGED <<buffer, current_date, flush_elapsed, last_update, files,
                   dir_exists, today, recv_pc, sleep_left, n_recv,
                   produced, write_failed, flushed>>

(* One round of print_data's loop; an exception ends the task, gather      *)
(* passes it on and asyncio.run cancels the other task.                    *)
PrintStep ==
    /\ print_pc = "sleeping"
    /\ ~cancel_requested
    /\ print_pc' = IF PrintRaises(order_book) THEN "failed" ELSE "sleeping"
    /\ cancel_requested' = PrintRaises(order_book)
    /\ last' = [at |-> "print_data", exc |-> PrintExc(order_book)]
    /\ UNCHANGED <<buffer, current_date, flush_elapsed, order_book, last_update, files,
                   dir_exists, today, recv_pc, sleep_left, n_recv,
                   produced, write_failed, flushed>>

(* The external termination signal: both tasks are cancelled. *)
Shutdown ==
    /\ ~cancel_requested
    /\ cancel_requested' = TRUE
    /\ last' = [at |-> "signal", exc |-> "none"]
    /\ UNCHANGED <<buffer, current_date, flush_elapsed, order_book, last_update, files,
                   dir_exists, today, recv_pc, sleep_left, print_pc, n_recv,
                   produced, write_failed, flushed>>

(* CancelledError is thrown into receive_data where it is suspended. *)
CancelRecv ==
    /\ cancel_requested
    /\ recv_pc \in {"connecting", "receiving", "backoff"}
    /\ recv_pc' = CASE recv_pc = "receiving" -> AfterRecv("CancelledError")
                    [] recv_pc = "connecting" -> AfterConnect("CancelledError")
                    [] OTHER -> AfterSleep("CancelledError")
    /\ last' = [at |-> CASE recv_pc = "receiving" -> "recv"
                         [] recv_pc = "connecting" -> "connect"
                         [] OTHER -> "sleep",
                exc |-> "CancelledError"]
    /\ sleep_left' = IF recv_pc' = "backoff" THEN SleepTime ELSE 0
    /\ UNCHANGED <<buffer, current_date, flush_elapsed, order_book, last_update, files,
                   dir_exists, today, print_pc, cancel_requested, n_recv,
                   produced, write_failed, flushed>>

(* CancelledError is thrown into print_data's asyncio.sleep(1). *)
CancelPrint ==
    /\ cancel_requested
    /\ print_pc = "sleeping"
    /\ print_pc' = "cancelled"
    /\ last' = [at |-> "print_data", exc |-> "CancelledError"]
    /\ UNCHANGED <<buffer, current_date, flush_elapsed, order_book, last_update, files,
                   dir_exists, today, recv_pc, sleep_left, cancel_requested, n_recv,
                   produced, write_failed, flushed>>

(* Time passes. *)
Tick ==
    \E d \in TickSteps :
        /\ flush_elapsed' = Min(flush_elapsed + d, FLUSH_INTERVAL + 1)
        /\ sleep_left' = Max(sleep_left - d, 0)
        /\ last' = [at |-> "clock", exc |-> "none"]
        /\ UNCHANGED <<buffer, current_date, order_book, last_update, files, dir_exists,
                       today, recv_pc, print_pc, cancel_requested, n_recv,
                       produced, write_failed, flushed>>

(* UTC midnight passes. *)
NextDay ==
    /\ today < MaxDate
    /\ today' = today + 1
    /\ last' = [at |-> "midnight", exc |-> "none"]
    /\ UNCHANGED <<buffer, current_date, flush_elapsed, order_book, last_update, files,
                   dir_exists, recv_pc, sleep_left, print_pc, cancel_requested, n_recv,
                   produced, write_failed, flushed>>

Next ==
    \/ Connect
    \/ ConnectFail
    \/ BackoffDone
    \/ Recv
    \/ RecvConnLost
    \/ PrintStep
    \/ Shutdown
    \/ CancelRecv
    \/ CancelPrint
    \/ Tick
    \/ NextDay

Spec == Init /\ [][Next]_vars

----------------------------------------------------------------------------
(* The collector driven method by method, as the tests drive it: no task   *)
(* runs, the data is well-formed and no write fails.                       *)
UnitInputs(n) ==
    { Obj(<<n>>, <<n>>, << <<Bid(1)>> >>, << <<Ask(1)>> >>),
      Obj(<<n>>, <<n>>, << <<>> >>, << <<>> >>),
      Obj(<<n>>, <<n>>, <<>>, <<>>) }

(* collector.buffer_snapshot(data) *)
CallBufferSnapshot ==
    /\ n_recv < MaxMsgs
    /\ \E data \in UnitInputs(n_recv + 1) :
          LET s == buffer_snapshot(buffer, data)
          IN  /\ buffer' = s.buffer
              /\ produced' = produced \o Added(buffer, s.buffer)
              /\ last' = [at |-> "buffer_snapshot", exc |-> s.exc]
    /\ n_recv' = n_recv + 1
    /\ UNCHANGED <<current_date, flush_elapsed, order_book, last_update, files,
                   dir_exists, today, recv_pc, sleep_left, print_pc, cancel_requested,
                   write_failed, flushed>>

(* collector.flush_buffer() *)
CallFlushBuffer ==
    /\ Store(flush_buffer([Collector EXCEPT !.at = "flush_buffer"], today, OkOutcome(buffer)))
    /\ UNCHANGED <<today, recv_pc, sleep_left, print_pc, cancel_requested, n_recv, produced>>

(* collector.rollover_file() *)
CallRolloverFile ==
    /\ Store(rollover_file([Collector EXCEPT !.at = "rollover_file"], today, OkOutcome(buffer)))
    /\ UNCHANGED <<today, recv_pc, sleep_left, print_pc, cancel_requested, n_recv, produced>>

NextUnit ==
    \/ CallBufferSnapshot
    \/ CallFlushBuffer
    \/ CallRolloverFile
    \/ Tick
    \/ NextDay

SpecUnit == Init /\ [][NextUnit]_vars

(* receive_data on one connection, over every shape of well-formed update. *)
RecvWide ==
    /\ n_recv < MaxWide
    /\ \E msg \in WideMessages(n_recv + 1) : RecvMessage(msg)

NextIngest ==
    \/ Connect
    \/ RecvWide

SpecIngest == Init /\ [][NextIngest]_vars

(* The two tasks under the scheduling of the event loop: time passes, a    *)
(* sleep that has run out returns, a connect attempt ends, a cancellation  *)
(* is delivered.  The feed delivers at most MaxFairMsgs messages.          *)
RecvFew ==
    /\ n_recv < MaxFairMsgs
    /\ \E msg \in Messages(n_recv + 1) : RecvMessage(msg)

NextFair ==
    \/ Connect
    \/ ConnectFail
    \/ BackoffDone
    \/ RecvFew
    \/ RecvConnLost
    \/ PrintStep
    \/ Shutdown
    \/ CancelRecv
    \/ CancelPrint
    \/ Tick
    \/ NextDay

Fairness ==
    /\ WF_vars(Tick)
    /\ WF_vars(BackoffDone)
    /\ WF_vars(Connect \/ ConnectFail)
    /\ WF_vars(CancelRecv)
    /\ WF_vars(CancelPrint)

SpecFair == Init /\ [][NextFair]_vars /\ Fairness

----------------------------------------------------------------------------
(* Helpers of the properties *)
RECURSIVE Sum(_)
Sum(s) == IF s = <<>> THEN 0 ELSE Head(s) + Sum(Tail(s))

Count(s, x) == Cardinality({i \in 1..Len(s) : s[i] = x})
Cells(s) == [i \in 1..Len(s) |-> DataLine(s[i])]

(* The rows buffer_snapshot appended in this step. *)
Ingested == Added(produced, produced')

----------------------------------------------------------------------------
(* C1: whenever a rollover runs (the held key changes from D to D') with a *)
(* non-empty buffer, the buffered rows are appended to the file of D, the  *)
(* key held before, and the file of D' is left as it was.                  *)
C1_RolloverFlushesToOldPartition ==
    [][ (current_date' # current_date /\ buffer \o Ingested # <<>>) =>
          /\ files'[current_date'] = files[current_date']
          /\ DataLines(files'[current_date]) =
                DataLines(files[current_date]) \o Cells(buffer \o Ingested) ]_vars

(* C2: as long as no write has failed, every row produced by ingest is in  *)
(* the buffer or in exactly one partition file, exactly once, and nothing  *)
(* else is in the buffer or in a file.                                     *)
RECURSIVE FileRows(_)
FileRows(ds) ==
    IF ds = {} THEN <<>>
    ELSE LET d == CHOOSE x \in ds : \A y \in ds : x <= y
         IN  DataLines(files[d]) \o FileRows(ds \ {d})

C2_NoRowLostOrDuplicated ==
    ~write_failed =>
        LET held == Cells(buffer) \o FileRows(Dates)
        IN  /\ Len(held) = Len(produced)
            /\ \A i \in 1..Len(produced) :
                  Count(held, DataLine(produced[i])) = Count(Cells(produced), DataLine(produced[i]))

C2_Witness ==
    /\ ~write_failed
    /\ buffer # <<>>
    /\ current_date # 0
    /\ \E d \in Dates : DataLines(files[d]) # <<>>

(* C3 as stated: an I/O error of a flush made while an update is processed *)
(* terminates the ingestion task.                                          *)
C3_FlushFaultIsFatal ==
    (last.at = "flush_buffer" /\ last.exc = "OSError") => recv_pc = "failed"

(* C3 as amended: an I/O error of a flush made while an update is          *)
(* processed is caught by the handler of the receive loop: the connection  *)
(* is abandoned and the ingestion task goes on to connect again, without a *)
(* backoff wait; the task does not terminate.                              *)
C3_FlushFaultReconnects ==
    (last.at = "flush_buffer" /\ last.exc = "OSError") =>
        (recv_pc = "connecting" /\ sleep_left = 0)

C3_Witness ==
    /\ last.at = "flush_buffer"
    /\ last.exc = "OSError"
    /\ buffer # <<>>

(* C4: whenever the connection is lost in the receive call (closed, or a   *)
(* socket fault), the ingestion task goes to the backoff wait of 5 time    *)
(* units before it connects again.                                         *)
C4_RecvLossBacksOff ==
    (last.at = "recv" /\ last.exc \in {"ConnectionClosed", "OSError"}) =>
        (recv_pc = "backoff" /\ sleep_left = BACKOFF)

(* C5: a malformed message is handled as a connection fault and is never   *)
(* fatal: the ingestion task goes on to connect again and neither task     *)
(* terminates with an exception.                                           *)
C5_MalformedNeverFatal ==
    /\ print_pc # "failed"
    /\ recv_pc # "failed"
    /\ last.at \in {"json.loads", "buffer_snapshot"} => recv_pc = "connecting"

(* C6: a cancellation delivered to the ingestion task in a receive, a      *)
(* connect or a backoff wait, or to the reporting task in its sleep,       *)
(* terminates that task; it starts no backoff wait, and a cancelled        *)
(* ingestion task connects, receives, waits and flushes no more.           *)
C6_CancellationTerminates ==
    [][ /\ (last'.exc = "CancelledError" /\ last'.at \in {"recv", "connect", "sleep"}
                /\ recv_pc # "cancelled")
            => (recv_pc' = "cancelled" /\ sleep_left' = 0)
        /\ (last'.exc = "CancelledError" /\ last'.at = "print_data" /\ print_pc # "cancelled")
            => print_pc' = "cancelled"
        /\ recv_pc = "cancelled"
            => /\ recv_pc' = "cancelled"
               /\ UNCHANGED <<buffer, files, dir_exists, current_date, order_book,
                              last_update, n_recv, sleep_left, flushed>>
        /\ print_pc = "cancelled" => print_pc' = "cancelled" ]_vars

C6_Witness ==
    /\ recv_pc = "cancelled"
    /\ print_pc = "cancelled"
    /\ buffer # <<>>

(* C7: a failed connect attempt starts the backoff wait of 5 time units,   *)
(* whatever came before it; the wait ends only in a new connect attempt    *)
(* (after the 5 units) or in cancellation; and it always does end: every   *)
(* failed attempt is followed by another attempt unless the task is        *)
(* cancelled.                                                              *)
C7_ConnectRetriesForever ==
    /\ [][ /\ (recv_pc = "connecting" /\ last'.at = "connect"
                    /\ last'.exc \notin {"none", "CancelledError"})
                => (recv_pc' = "backoff" /\ sleep_left' = 5)
           /\ recv_pc = "backoff"
                => /\ recv_pc' \in {"backoff", "connecting", "cancelled"}
                   /\ recv_pc' = "connecting" => sleep_left = 0 ]_vars
    /\ (recv_pc = "backoff") ~> (recv_pc \in {"connecting", "cancelled"})

C7_Witness ==
    /\ recv_pc = "connecting"
    /\ last.at = "sleep"
    /\ last.exc = "none"

(* C8: the file of a partition that N flushes of R rows each have written  *)
(* holds N x R data rows and exactly one header line, its first line,      *)
(* written by the flush that created it (in general: as many data rows as  *)
(* the flushes wrote together); a partition no flush has written has no    *)
(* file.                                                                   *)
C8_FlushesAccumulate ==
    \A d \in Dates :
        LET f == files[d]
            N == Len(flushed[d])
        IN  /\ f.exists <=> N >= 1
            /\ f.exists =>
                  /\ HeaderCount(f) = 1
                  /\ f.lines[1] = HeaderLine
                  /\ Len(DataLines(f)) = Sum(flushed[d])
                  /\ \A R \in 1..Len(produced) :
                        (\A i \in 1..N : flushed[d][i] = R) => Len(DataLines(f)) = N * R

C8_Witness ==
    \E d \in Dates : flushed[d] = <<2, 2>> /\ Len(files[d].lines) = 5

(* C9: a flush on an empty buffer changes nothing: no file, no directory,  *)
(* not the buffer, the held partition key or last_flush.                   *)
C9_EmptyFlushIsNoOp ==
    [][ (last'.at = "flush_buffer" /\ buffer = <<>>) =>
           UNCHANGED <<buffer, files, dir_exists, current_date, flush_elapsed, flushed>> ]_vars

C9_Witness ==
    /\ last.at = "flush_buffer"
    /\ n_recv >= 1
    /\ produced = <<>>
    /\ buffer = <<>>
    /\ ~dir_exists
    /\ flush_elapsed > 0

(* C10: an update with k_b bids and k_a asks (absent arrays count as       *)
(* empty) appends min(k_b,10) + min(k_a,10) rows to the buffer: the bids   *)
(* first, then the asks, each side in feed order with levels 1, 2, ...,    *)
(* every row with the update's update_id and timestamp.                    *)
C10_IngestAppendsTopTen ==
    [][ (last'.at = "recv" /\ last'.exc = "none" /\ n_recv' = n_recv + 1) =>
          LET data == order_book'[1]
              bids == IF data.b = <<>> THEN <<>> ELSE data.b[1]
              asks == IF data.a = <<>> THEN <<>> ELSE data.a[1]
              nb == Min(Len(bids), 10)
              na == Min(Len(asks), 10)
              added == Ingested
          IN  /\ buffer' = buffer \o added
              /\ Len(added) = nb + na
              /\ \A i \in 1..nb :
                    /\ added[i].side = "bid"
                    /\ added[i].level = i
                    /\ added[i].price = bids[i][1]
                    /\ added[i].quantity = bids[i][2]
              /\ \A j \in 1..na :
                    /\ added[nb + j].side = "ask"
                    /\ added[nb + j].level = j
                    /\ added[nb + j].price = asks[j][1]
                    /\ added[nb + j].quantity = asks[j][2]
              /\ \A i \in 1..Len(added) :
                    /\ added[i].update_id = data.u
                    /\ added[i].timestamp = data.E ]_vars

C10_Witness ==
    /\ last.at = "recv"
    /\ Len(buffer) = 20
    /\ Len(order_book[1].b[1]) = 11
    /\ Len(order_book[1].a[1]) = 11

----------------------------------------------------------------------------
IsPrefix(s, t) == Len(s) <= Len(t) /\ SubSeq(t, 1, Len(s)) = s

(* The number of writes completed so far, over all partitions. *)
Writes(fl) == Sum([i \in 1..(MaxDate + 1) |-> Len(fl[i - 1])])

(* C11: a rollover called with a non-empty batch under the clock date D    *)
(* leaves the file of D existing with at least the rows of the batch and   *)
(* touches no other file, and a file that exists keeps existing and has at *)
(* least one data row: so batches rolled over under k distinct clock dates *)
(* leave k distinct files, each with at least one data row.                *)
C11_RolloverPerDateMakesFiles ==
    [][ /\ (last'.at = "rollover_file" /\ buffer # <<>>) =>
              /\ files'[today].exists
              /\ Len(DataLines(files'[today])) >= Len(buffer)
              /\ \A d \in Dates \ {today} : files'[d] = files[d]
        /\ \A d \in Dates :
              files[d].exists => (files'[d].exists /\ DataLines(files'[d]) # <<>>) ]_vars

C11_Witness ==
    /\ last.at = "rollover_file"
    /\ today = 1
    /\ current_date = 1
    /\ buffer = <<>>
    /\ \A d \in 0..1 : files[d].exists /\ DataLines(files[d]) # <<>> /\ Len(flushed[d]) = 1

(* C12: a partition file that exists keeps existing, and its content in    *)
(* the next state begins with its content now: files are only appended to. *)
C12_FilesOnlyGrow ==
    [][ \A d \in Dates :
           files[d].exists =>
              (files'[d].exists /\ IsPrefix(files[d].lines, files'[d].lines)) ]_vars

C12_Witness ==
    \E d \in Dates : Len(flushed[d]) = 2 /\ Len(DataLines(files[d])) > flushed[d][2]

(* C13: the processing of one update completes at most one write, changes  *)
(* at most one file, and when the clock date differs from the held key the *)
(* write is the rollover's: the held key is the clock date afterwards and  *)
(* the buffer is empty.                                                    *)
C13_OneFlushPerUpdate ==
    [][ n_recv' = n_recv + 1 =>
          /\ Writes(flushed') <= Writes(flushed) + 1
          /\ Cardinality({d \in Dates : files'[d] # files[d]}) <= 1
          /\ (Writes(flushed') = Writes(flushed) + 1 /\ today # current_date) =>
                (current_date' = today /\ buffer' = <<>> /\ flush_elapsed' = 0) ]_vars

C13_Witness ==
    /\ last = [at |-> "recv", exc |-> "none"]
    /\ current_date = 1
    /\ buffer = <<>>
    /\ flush_elapsed = 0
    /\ flushed[1] # <<>>
    /\ flushed[0] = <<>>

(* An update has been processed to the end of the handler in this step. *)
Processed ==
    /\ n_recv' = n_recv + 1
    /\ last' = [at |-> "recv", exc |-> "none"]

(* The 60 s check of this step found more than 60 elapsed: it did before   *)
(* the step, and no rollover flush has reset it (the clock date is the     *)
(* held key, or the rollover found the buffer empty).                      *)
TimeCheckExceeds ==
    /\ Processed
    /\ flush_elapsed > FLUSH_INTERVAL
    /\ (today = current_date \/ buffer \o Ingested = <<>>)

(* C14 as stated: whenever the 60 s check of an update finds more than 60  *)
(* elapsed, last_flush is reset, so that the elapsed time is at most 60    *)
(* right after the update.                                                 *)
C14_TimeCheckAlwaysResets ==
    [][ TimeCheckExceeds => flush_elapsed' <= FLUSH_INTERVAL ]_vars

(* C14 as amended: when the 60 s check of an update finds more than 60     *)
(* elapsed and the update is processed without a fault, a non-empty buffer *)
(* is appended to the file of the held key (then the clock date), emptied  *)
(* and last_flush is reset; with an empty buffer nothing is written and    *)
(* last_flush is not reset, so the elapsed time still exceeds 60.          *)
C14_TimeCheckFlushesNonEmpty ==
    [][ TimeCheckExceeds =>
          IF buffer \o Ingested # <<>>
          THEN /\ buffer' = <<>>
               /\ flush_elapsed' = 0
               /\ current_date' = current_date
               /\ DataLines(files'[current_date]) =
                     DataLines(files[current_date]) \o Cells(buffer \o Ingested)
               /\ \A d \in Dates \ {current_date} : files'[d] = files[d]
          ELSE /\ UNCHANGED <<buffer, files, flush_elapsed>>
               /\ flush_elapsed' > FLUSH_INTERVAL ]_vars

C14_Witness ==
    /\ last = [at |-> "recv", exc |-> "none"]
    /\ today = 0
    /\ current_date = 0
    /\ buffer = <<>>
    /\ flush_elapsed = 0
    /\ Len(flushed[0]) = 1
    /\ ~write_failed

(* C15: when the write of a flush fails, the buffer holds the rows it held *)
(* when the flush began, in the same order, and last_flush is unchanged;   *)
(* the buffer loses rows only in a step that completes a write, which puts *)
(* all of them into a file and leaves the buffer empty.                    *)
C15_BufferKeptOnWriteFault ==
    [][ /\ (last'.at = "flush_buffer" /\ last'.exc = "OSError") =>
              (buffer' = buffer \o Ingested /\ flush_elapsed' = flush_elapsed)
        /\ ~IsPrefix(buffer, buffer') =>
              /\ buffer' = <<>>
              /\ Writes(flushed') = Writes(flushed) + 1
              /\ \E d \in Dates :
                    DataLines(files'[d]) = DataLines(files[d]) \o Cells(buffer \o Ingested) ]_vars

C15_Witness ==
    /\ last = [at |-> "flush_buffer", exc |-> "OSError"]
    /\ write_failed
    /\ Len(buffer) = 3
    /\ flush_elapsed > FLUSH_INTERVAL
    /\ \E d \in Dates : Len(DataLines(files[d])) = 2

(* C16: a round of print_data changes none of the buffer, the held         *)
(* partition key, last_flush, the published snapshot and its time, the     *)
(* files and the directory.                                                *)
C16_PrintChangesNothing ==
    [][ last'.at = "print_data" =>
          UNCHANGED <<buffer, current_date, flush_elapsed, order_book, last_update,
                      files, dir_exists, flushed>> ]_vars

C16_Witness ==
    /\ last = [at |-> "print_data", exc |-> "none"]
    /\ order_book # <<>>
    /\ buffer # <<>>
    /\ \E d \in Dates : files[d].exists

(* Row r1 comes before row r2: it is of an earlier update, or of the same  *)
(* update and a bid while r2 is an ask, or of the same side at a lower     *)
(* level.                                                                  *)
Before(r1, r2) ==
    \/ r1.update_id[1] < r2.update_id[1]
    \/ /\ r1.update_id = r2.update_id
       /\ \/ (r1.side = "bid" /\ r2.side = "ask")
          \/ (r1.side = r2.side /\ r1.level < r2.level)

(* C17: the rows of the buffer are in the arrival order of their updates;  *)
(* the rows of one update are its bids, then its asks, each side in feed   *)
(* order: the row of level i carries the i-th entry of the feed.           *)
C17_BufferInArrivalOrder ==
    /\ \A i, j \in 1..Len(buffer) : i < j => Before(buffer[i], buffer[j])
    /\ \A i \in 1..Len(buffer) :
          LET r == buffer[i]
          IN  <<r.price, r.quantity>> = (IF r.side = "bid" THEN Bid(r.level) ELSE Ask(r.level))

C17_Witness ==
    /\ Len(buffer) = 6
    /\ buffer[1].update_id = <<1>>
    /\ buffer[2].level = 2
    /\ buffer[3].side = "ask"
    /\ buffer[4].update_id = <<2>>

(* C18: when the processing of a message fails in json.loads or in         *)
(* buffer_snapshot, the buffer is afterwards what it was before the        *)
(* message: it holds no row of that message.                               *)
C18_IngestAllOrNothing ==
    [][ (n_recv' = n_recv + 1 /\ last'.at \in {"json.loads", "buffer_snapshot"}) =>
           buffer' = buffer ]_vars

(* C19: right after an update has been processed without a fault, the      *)
(* buffer is empty or at most 60 have elapsed since last_flush.            *)
C19_BufferedRowsAreYoung ==
    last = [at |-> "recv", exc |-> "none"] =>
        (buffer = <<>> \/ flush_elapsed <= FLUSH_INTERVAL)

C19_Witness ==
    /\ last = [at |-> "recv", exc |-> "none"]
    /\ n_recv = 2
    /\ Len(buffer) = 3
    /\ flush_elapsed = 0
    /\ current_date = 0
    /\ Len(flushed[0]) = 1

(* C20: the published snapshot and the published receipt time are of the   *)
(* same message (the n-th message has event time n and receipt time n),    *)
(* in every state, so in every state print_data reads them in.             *)
C20_SnapshotAndStampMatch ==
    /\ order_book = <<>> <=> last_update = <<>>
    /\ (order_book # <<>> /\ order_book[1].E # <<>>) => order_book[1].E = last_update

C20_Witness ==
    /\ last = [at |-> "print_data", exc |-> "none"]
    /\ order_book # <<>>
    /\ order_book[1].E = <<2>>
    /\ last_update = <<2>>

====
